---- MODULE Spec2Model ----
(***************************************************************************)
(* Orchestration layer of the antbox content repository: the permission    *)
(* guard of AntboxService (#assertPermission), the orchestrator operations *)
(* that wrap the node store with permission checks and domain events, and  *)
(* the in-memory node repository they run against.                         *)
(*                                                                         *)
(* Four specifications share the variables:                                *)
(*   GuardSpec  the guard as a pure function, applied to every principal,  *)
(*              node and permission of a bounded universe;                 *)
(*   Spec       the orchestrator: one request at a time runs through the   *)
(*              handler's await points against the node store;             *)
(*   BusSpec    the orchestrator together with the subscribers of the      *)
(*              events it publishes;                                       *)
(*   RaceSpec   two callers whose handlers interleave at their awaits.     *)
(***************************************************************************)
EXTENDS Naturals, Integers, Sequences, FiniteSets, TLC

VARIABLES
    db,      \* InMemoryNodeRepository.db: uuid -> node record
    db0,     \* the store as it was when the request in flight was issued
    req,     \* the request in flight (or the last one finished)
    nextId,  \* number of uuids the store has generated so far
    nOps,    \* number of requests the caller of req has issued so far
    probe,   \* GuardSpec: the guard's input and its decision
    bus,     \* DomainEvents: the events published and their handler invocations
    other    \* a second handler in flight, suspended at an await, with the
             \* request count and the snapshot that go with it

vars == <<db, db0, req, nextId, nOps, probe, bus, other>>

(***************************************************************************)
(* Bounds                                                                  *)
(***************************************************************************)
\* number of requests a caller issues in one behaviour
MaxOps == 1
\* number of uuids the store generates in one behaviour
MaxNew == 1

\* query: pageSize = 25
PageSize == 25

(***************************************************************************)
(* Well-known values                                                       *)
(***************************************************************************)
ROOT_FOLDER_UUID == "--root--"
SYSTEM_FOLDER_UUID == "--system--"
ACTIONS_FOLDER_UUID == "--actions--"
ASPECTS_FOLDER_UUID == "--aspects--"
EXT_FOLDER_UUID == "--ext--"
ANONYMOUS_USER_EMAIL == "anonymous@antbox.io"
ROOT_USER_EMAIL == "root@antbox.io"

\* a parameter that was not given (undefined)
UNSET == "undefined"

Permission == {"Read", "Write", "Export"}

Granted == "Granted"
Denied == "Denied"

(***************************************************************************)
(* Either                                                                  *)
(***************************************************************************)
NoNode == [uuid |-> "void"]

right(v) == [ok |-> TRUE, value |-> v, error |-> "none"]
left(e) == [ok |-> FALSE, value |-> NoNode, error |-> e]
isLeft(e) == ~e.ok
isRight(e) == e.ok

(***************************************************************************)
(* Nodes and principals                                                    *)
(***************************************************************************)
isFolder(node) == node.kind = "Folder"

isRootFolder(node) == node.uuid = ROOT_FOLDER_UUID

isAdmin(principal) == principal.isAdmin

(***************************************************************************)
(* Permission guard                                                        *)
(***************************************************************************)
\* a guard that evaluates the owner rule before the two Root rules
assertPermission_ownerFirst(authCtx, node, permission) ==
    IF ~isFolder(node) THEN right(NoNode)
    ELSE IF isAdmin(authCtx) THEN right(NoNode)
    ELSE IF node.owner = authCtx.email THEN right(NoNode)
    ELSE IF isRootFolder(node) /\ permission = "Read" THEN right(NoNode)
    ELSE IF isRootFolder(node) /\ ~isAdmin(authCtx) THEN left("ForbiddenError")
    ELSE IF permission \in node.permissions.anonymous THEN right(NoNode)
    ELSE IF /\ node.group \in authCtx.groups
            /\ permission \in node.permissions.group THEN right(NoNode)
    ELSE IF /\ authCtx.email # ANONYMOUS_USER_EMAIL
            /\ permission \in node.permissions.authenticated THEN right(NoNode)
    ELSE left("ForbiddenError")

\* a guard that lacks the owner rule
assertPermission_noOwner(authCtx, node, permission) ==
    IF ~isFolder(node) THEN right(NoNode)
    ELSE IF isAdmin(authCtx) THEN right(NoNode)
    ELSE IF isRootFolder(node) /\ permission = "Read" THEN right(NoNode)
    ELSE IF isRootFolder(node) /\ ~isAdmin(authCtx) THEN left("ForbiddenError")
    ELSE IF permission \in node.permissions.anonymous THEN right(NoNode)
    ELSE IF /\ node.group \in authCtx.groups
            /\ permission \in node.permissions.group THEN right(NoNode)
    ELSE IF /\ authCtx.email # ANONYMOUS_USER_EMAIL
            /\ permission \in node.permissions.authenticated THEN right(NoNode)
    ELSE left("ForbiddenError")

\* a guard whose authenticated grant is shadowed by an anonymous grant of
\* another capability
assertPermission_shadowed(authCtx, node, permission) ==
    IF ~isFolder(node) THEN right(NoNode)
    ELSE IF isAdmin(authCtx) THEN right(NoNode)
    ELSE IF isRootFolder(node) /\ permission = "Read" THEN right(NoNode)
    ELSE IF isRootFolder(node) /\ ~isAdmin(authCtx) THEN left("ForbiddenError")
    ELSE IF node.owner = authCtx.email THEN right(NoNode)
    ELSE IF node.permissions.anonymous # {}
        THEN IF permission \in node.permissions.anonymous
             THEN right(NoNode) ELSE left("ForbiddenError")
    ELSE IF /\ node.group \in authCtx.groups
            /\ permission \in node.permissions.group THEN right(NoNode)
    ELSE IF /\ authCtx.email # ANONYMOUS_USER_EMAIL
            /\ permission \in node.permissions.authenticated THEN right(NoNode)
    ELSE left("ForbiddenError")

assertPermission(authCtx, node, permission) ==
    IF ~isFolder(node) THEN right(NoNode)
    ELSE IF isAdmin(authCtx) THEN right(NoNode)
    ELSE IF isRootFolder(node) /\ permission = "Read" THEN right(NoNode)
    ELSE IF isRootFolder(node) /\ ~isAdmin(authCtx) THEN left("ForbiddenError")
    ELSE IF node.owner = authCtx.email THEN right(NoNode)
    ELSE IF permission \in node.permissions.anonymous THEN right(NoNode)
    ELSE IF /\ node.group \in authCtx.groups
            /\ permission \in node.permissions.group THEN right(NoNode)
    ELSE IF /\ authCtx.email # ANONYMOUS_USER_EMAIL
            /\ permission \in node.permissions.authenticated THEN right(NoNode)
    ELSE left("ForbiddenError")

assertCanRead(authCtx, folder) == assertPermission(authCtx, folder, "Read")

assertCanWrite(authCtx, parent) == assertPermission(authCtx, parent, "Write")

\* the guard's decision as the caller sees it
Decision(e) == IF isRight(e) THEN Granted ELSE Denied

(***************************************************************************)
(* GuardSpec: the guard applied to a bounded universe of inputs            *)
(***************************************************************************)
ALICE == "alice@antbox.io"
CAROL == "carol@antbox.io"

Admin == [email |-> ROOT_USER_EMAIL, group |-> "--admins--",
          groups |-> {"--admins--"}, isAdmin |-> TRUE]
Alice == [email |-> ALICE, group |-> "eng", groups |-> {"eng"}, isAdmin |-> FALSE]
Carol == [email |-> CAROL, group |-> "ops", groups |-> {"ops"}, isAdmin |-> FALSE]
Anonymous == [email |-> ANONYMOUS_USER_EMAIL, group |-> "--anonymous--",
              groups |-> {}, isAdmin |-> FALSE]

GuardPrincipals == {Admin, Alice, Carol, Anonymous}

PermissionSets ==
    [group : SUBSET Permission, authenticated : SUBSET Permission,
     anonymous : SUBSET Permission]

NoPermissions == [group |-> {}, authenticated |-> {}, anonymous |-> {}]

GuardFolders ==
    [uuid : {ROOT_FOLDER_UUID, "F"}, kind : {"Folder"}, parent : {ROOT_FOLDER_UUID},
     owner : {ROOT_USER_EMAIL, ALICE}, group : {"eng", "qa"},
     permissions : PermissionSets, content : {"none"}]

GuardLeaves ==
    [uuid : {"N"}, kind : {"File", "Metanode", "SmartFolder"}, parent : {"F"},
     owner : {ROOT_USER_EMAIL, ALICE}, group : {"eng"},
     permissions : {NoPermissions}, content : {"c0"}]

GuardNodes == GuardFolders \cup GuardLeaves

NoProbe == [result |-> "off"]

GuardInit ==
    /\ probe \in [principal : GuardPrincipals, node : GuardNodes,
                   permission : Permission, result : {"pending"}, prev : {"none"}]
    /\ db = << >>
    /\ db0 = << >>
    /\ req = [pc |-> "idle"]
    /\ nextId = 0
    /\ nOps = 0
    /\ bus = << >>
    /\ other = [req |-> [pc |-> "idle"], nOps |-> 0, db0 |-> << >>]

\* the guard is applied to the probe
Evaluate ==
    /\ probe.result = "pending"
    /\ probe' = [probe EXCEPT !.result =
            Decision(assertPermission(probe.principal, probe.node, probe.permission))]
    /\ UNCHANGED <<db, db0, req, nextId, nOps, bus, other>>

\* a capability is added to one of the folder's explicit grant sets, and the
\* guard is applied again to the same principal and permission
AddGrant ==
    /\ probe.result \in {Granted, Denied}
    /\ isFolder(probe.node)
    /\ \E field \in {"anonymous", "group", "authenticated"} :
         \E c \in Permission \ probe.node.permissions[field] :
            LET node2 == [probe.node EXCEPT !.permissions[field] = @ \cup {c}]
            IN probe' = [probe EXCEPT
                    !.node = node2,
                    !.prev = probe.result,
                    !.result = Decision(assertPermission(probe.principal, node2,
                                                         probe.permission))]
    /\ UNCHANGED <<db, db0, req, nextId, nOps, bus, other>>

GuardNext == Evaluate \/ AddGrant

GuardSpec == GuardInit /\ [][GuardNext]_vars

(***************************************************************************)
(* Claims about the guard (GuardSpec)                                      *)
(***************************************************************************)
\* the precondition of rule i of the nine-rule ladder
LadderRule(i, p, n, cap) ==
    CASE i = 1 -> n.kind # "Folder"
      [] i = 2 -> p.isAdmin
      [] i = 3 -> n.uuid = ROOT_FOLDER_UUID /\ cap = "Read"
      [] i = 4 -> n.uuid = ROOT_FOLDER_UUID /\ ~p.isAdmin
      [] i = 5 -> p.email = n.owner
      [] i = 6 -> cap \in n.permissions.anonymous
      [] i = 7 -> n.group \in p.groups /\ cap \in n.permissions.group
      [] i = 8 -> p.email # ANONYMOUS_USER_EMAIL /\ cap \in n.permissions.authenticated
      [] i = 9 -> TRUE

\* the decision of the first rule that matches
LadderDecision(p, n, cap) ==
    LET first == CHOOSE i \in 1..9 :
                    /\ LadderRule(i, p, n, cap)
                    /\ \A j \in 1..(i - 1) : ~LadderRule(j, p, n, cap)
    IN IF first \in {4, 9} THEN Denied ELSE Granted

ProbeDone == probe.result \in {Granted, Denied}

\* C1: the guard returns exactly the decision of the ordered nine-rule
\* ladder (first match wins); an admin is granted every capability on every
\* folder, and a non-admin is granted Read and denied Write on Root.
C1_GuardIsLadder ==
    ProbeDone =>
        /\ probe.result = LadderDecision(probe.principal, probe.node, probe.permission)
        /\ (probe.principal.isAdmin => probe.result = Granted)
        /\ (~probe.principal.isAdmin /\ probe.node.kind = "Folder"
                /\ probe.node.uuid = ROOT_FOLDER_UUID =>
              /\ (probe.permission = "Read" => probe.result = Granted)
              /\ (probe.permission = "Write" => probe.result = Denied))

\* the Root rule decides before the owner rule: the owner of Root is denied Write
C1_Witness ==
    /\ ProbeDone
    /\ probe.prev = "none"
    /\ probe.node.uuid = ROOT_FOLDER_UUID
    /\ probe.node.owner = probe.principal.email
    /\ ~probe.principal.isAdmin
    /\ probe.permission = "Write"
    /\ probe.result = Denied

\* C2 as stated: a non-admin owner is granted every capability on every
\* folder, the Root folder included.
C2_OwnerGrantedEverywhere ==
    (/\ ProbeDone
     /\ probe.node.kind = "Folder"
     /\ ~probe.principal.isAdmin
     /\ probe.principal.email = probe.node.owner)
        => probe.result = Granted

\* C2 amended: a non-admin owner is granted every capability on every folder
\* other than Root, whatever the folder's permission sets contain.
C2_OwnerGrantedBelowRoot ==
    (/\ ProbeDone
     /\ probe.node.kind = "Folder"
     /\ probe.node.uuid # ROOT_FOLDER_UUID
     /\ ~probe.principal.isAdmin
     /\ probe.principal.email = probe.node.owner)
        => probe.result = Granted

\* an owner outside the folder's group is granted Export on a folder whose
\* permission sets are all empty
C2_Witness ==
    /\ ProbeDone
    /\ probe.node.kind = "Folder"
    /\ probe.node.uuid # ROOT_FOLDER_UUID
    /\ ~probe.principal.isAdmin
    /\ probe.principal.email = probe.node.owner
    /\ probe.node.group \notin probe.principal.groups
    /\ probe.node.permissions = NoPermissions
    /\ probe.permission = "Export"
    /\ probe.result = Granted

\* C3: adding a capability to the anonymous, group or authenticated set of a
\* folder never turns a Granted decision into Denied.
C3_GrantsMonotonic ==
    (ProbeDone /\ probe.prev = Granted) => probe.result = Granted

\* a decision that was Granted through an authenticated grant is still
\* Granted after a capability was added to the anonymous set
C3_Witness ==
    /\ ProbeDone
    /\ probe.prev = Granted
    /\ probe.result = Granted
    /\ probe.node.kind = "Folder"
    /\ probe.node.uuid # ROOT_FOLDER_UUID
    /\ ~probe.principal.isAdmin
    /\ probe.principal.email # probe.node.owner
    /\ probe.permission \notin probe.node.permissions.anonymous
    /\ probe.node.permissions.anonymous # {}

(***************************************************************************)
(* The node store                                                          *)
(***************************************************************************)
NewUuids == <<"X1", "X2", "X3">>

\* the uuid the store gives to the next node it creates
NewUuid == NewUuids[nextId + 1]

\* InMemoryNodeRepository.getById
getById(uuid) ==
    IF uuid \in DOMAIN db THEN right(db[uuid]) ELSE left("NodeNotFoundError")

\* InMemoryNodeRepository.add: this.db[node.uuid] = node
add(node) ==
    [u \in DOMAIN db \cup {node.uuid} |-> IF u = node.uuid THEN node ELSE db[u]]

\* InMemoryNodeRepository.update: this.db[node.uuid] = node
update(node) ==
    [u \in DOMAIN db \cup {node.uuid} |-> IF u = node.uuid THEN node ELSE db[u]]

\* InMemoryNodeRepository.delete: delete this.db[uuid]
delete(uuid) == [u \in DOMAIN db \ {uuid} |-> db[u]]

\* getNodeFilterPredicate: the node satisfies every filter of the list
getNodeFilterPredicate(filters, node) ==
    \A i \in DOMAIN filters : node[filters[i].field] = filters[i].value

\* filtered.slice(firstIndex, lastIndex) of the records that satisfy the
\* filters; the order of the records within a page that is cut is not modelled
slice(filtered, firstIndex, lastIndex) ==
    IF firstIndex >= Cardinality(filtered) THEN {}
    ELSE IF firstIndex = 0 /\ Cardinality(filtered) <= lastIndex THEN filtered
    ELSE CHOOSE nodes \in SUBSET filtered :
            \/ Cardinality(nodes) = lastIndex - firstIndex
            \/ Cardinality(nodes) = Cardinality(filtered) - firstIndex

\* InMemoryNodeRepository.filter
filter(filters, pageSize, pageToken) ==
    LET firstIndex == (pageToken - 1) * pageSize
        lastIndex == firstIndex + pageSize
        filtered == {db[u] : u \in {v \in DOMAIN db :
                                        getNodeFilterPredicate(filters, db[v])}}
    IN [nodes |-> slice(filtered, firstIndex, lastIndex),
        pageCount |-> (Cardinality(filtered) + pageSize - 1) \div pageSize,
        pageSize |-> pageSize, pageToken |-> pageToken]

\* NodeService.get
NodeService_get(uuid) == getById(uuid)

\* NodeService.query
NodeService_query(filters, pageSize, pageToken) ==
    right(filter(filters, pageSize, pageToken))

\* the filters a smart folder has saved
SmartFolderFilters == <<[field |-> "kind", value |-> "File"]>>

\* NodeService.evaluate: the records the filters of the smart folder select
NodeService_evaluate(uuid) ==
    IF uuid \in DOMAIN db /\ db[uuid].kind = "SmartFolder"
    THEN right([nodes |-> {db[u] : u \in {v \in DOMAIN db :
                                getNodeFilterPredicate(SmartFolderFilters, db[v])}}])
    ELSE left("SmartFolderNodeNotFoundError")

\* NodeService.export: the binary payload of the node
NodeService_export(uuid) ==
    IF uuid \in DOMAIN db THEN right([file |-> db[uuid].content])
    ELSE left("NodeNotFoundError")

\* NodeService.list: the nodes whose parent is the folder
NodeService_list(parent) == {db[u] : u \in {v \in DOMAIN db : db[v].parent = parent}}

\* metadata.parent, undefined when the field is absent
ParentOf(metadata) ==
    IF "parent" \in DOMAIN metadata THEN metadata.parent ELSE UNSET

\* x ?? Node.ROOT_FOLDER_UUID, and the default of a uuid parameter
OrRoot(uuid) == IF uuid = UNSET THEN ROOT_FOLDER_UUID ELSE uuid

\* the node NodeService.createFolder stores
NodeService_createFolder(metadata) ==
    [uuid |-> NewUuid, kind |-> "Folder", parent |-> OrRoot(ParentOf(metadata)),
     owner |-> metadata.owner, group |-> metadata.group,
     permissions |-> metadata.permissions, content |-> "none"]

\* the node NodeService.createMetanode stores
NodeService_createMetanode(metadata) ==
    [uuid |-> NewUuid, kind |-> "Metanode", parent |-> OrRoot(ParentOf(metadata)),
     owner |-> UNSET, group |-> UNSET,
     permissions |-> NoPermissions, content |-> "none"]

\* the node NodeService.createFile stores
NodeService_createFile(file, metadata) ==
    [uuid |-> NewUuid, kind |-> "File", parent |-> OrRoot(ParentOf(metadata)),
     owner |-> UNSET, group |-> UNSET,
     permissions |-> NoPermissions, content |-> file]

\* the node NodeService.update stores: the fields of metadata replace the
\* node's fields of the same name
NodeService_update(node, metadata) ==
    [k \in DOMAIN node |-> IF k \in DOMAIN metadata THEN metadata[k] ELSE node[k]]

\* the node NodeService.copy stores
NodeService_copy(node, parent) ==
    [node EXCEPT !.uuid = NewUuid, !.parent = parent]

\* the node NodeService.duplicate stores
NodeService_duplicate(node) == [node EXCEPT !.uuid = NewUuid]

\* the node NodeService.updateFile stores
NodeService_updateFile(node, file) == [node EXCEPT !.content = file]

(***************************************************************************)
(* Reserved folders                                                        *)
(***************************************************************************)
isActionsFolder(uuid) == uuid = ACTIONS_FOLDER_UUID

isAspectsFolder(uuid) == uuid = ASPECTS_FOLDER_UUID

isExtensionsFolder(uuid) == uuid = EXT_FOLDER_UUID

isSystemFolder(uuid) ==
    \/ uuid = SYSTEM_FOLDER_UUID
    \/ isAspectsFolder(uuid)
    \/ isActionsFolder(uuid)
    \/ isExtensionsFolder(uuid)

(***************************************************************************)
(* Requests                                                                *)
(***************************************************************************)
Pending == [ok |-> FALSE, value |-> NoNode, error |-> "pending"]

NoMetadata == [none |-> TRUE]

IdleReq ==
    [op |-> "none", principal |-> Anonymous, uuid |-> UNSET, metadata |-> NoMetadata,
     merge |-> FALSE, file |-> "none", pc |-> "idle", node |-> NoNode,
     parent |-> NoNode, result |-> Pending, trace |-> << >>]

NewReq(op, authCtx, uuid, metadata, merge, file) ==
    [IdleReq EXCEPT !.op = op, !.principal = authCtx, !.uuid = uuid,
                    !.metadata = metadata, !.merge = merge, !.file = file]

\* the handler returns result
Return(r, result) == [r EXCEPT !.pc = "done", !.result = result]

\* the handler suspends at the await named pc
Await(r, pc) == [r EXCEPT !.pc = pc]

\* a call of the node store that changes it, and its outcome
StoreCall(name, ok) ==
    [kind |-> "store", name |-> name, ok |-> ok, actor |-> "-", uuid |-> "-",
     fields |-> {}]

\* DomainEvents.notify(new Event(actor, uuid, fields))
Notify(eventId, actor, uuid, fields) ==
    [kind |-> "notify", name |-> eventId, ok |-> TRUE, actor |-> actor, uuid |-> uuid,
     fields |-> fields]

\* a new request may be issued
CanIssue == req.pc = "idle" /\ nOps < MaxOps

\* a request that may create a node
CanCreate == CanIssue /\ nextId < MaxNew

Issued == db0' = db /\ nOps' = nOps + 1

(***************************************************************************)
(* DomainEvents                                                            *)
(***************************************************************************)
\* the handlers AntboxService subscribes for an event id, in registration order
subscribeToDomainEvents(eventId) ==
    CASE eventId = "NodeCreatedEvent"
            -> <<"runOnCreateScritps", "runAutomaticActionsForCreates">>
      [] eventId = "NodeUpdatedEvent"
            -> <<"runOnUpdatedScritps", "runAutomaticActionsForUpdates">>
      [] OTHER -> << >>

\* a publication: the event and one invocation per handler registered for it
Publication(eventId, uuid, status) ==
    [eventId |-> eventId, uuid |-> uuid,
     handlers |-> subscribeToDomainEvents(eventId),
     status |-> [i \in 1..Len(subscribeToDomainEvents(eventId)) |-> status]]

\* DomainEvents.notify: every handler registered for the event is scheduled,
\* in registration order, and the publisher goes on
DomainEvents_notify(b, eventId, uuid) ==
    Append(b, Publication(eventId, uuid, "scheduled"))

\* a publication the handler waits for: the subscribers have finished when it
\* goes on
published_awaited(b, voidOrErr, eventId, uuid) ==
    IF isRight(voidOrErr) THEN Append(b, Publication(eventId, uuid, "succeeded")) ELSE b

\* if (voidOrErr.isRight()) DomainEvents.notify(event): the call is not
\* awaited and what it returns is dropped
published(b, voidOrErr, eventId, uuid) ==
    IF isRight(voidOrErr) THEN DomainEvents_notify(b, eventId, uuid) ELSE b

\* the first invocation of a publication that has not run yet, 0 if none
NextHandler(pub) ==
    IF \E i \in DOMAIN pub.status : pub.status[i] = "scheduled"
    THEN CHOOSE i \in DOMAIN pub.status :
            /\ pub.status[i] = "scheduled"
            /\ \A j \in 1..(i - 1) : pub.status[j] # "scheduled"
    ELSE 0

\* a bus on which a handler that raises ends the delivery of its event
DomainEvents_deliver_stopping(b, p, raised) ==
    LET i == NextHandler(b[p])
    IN [b EXCEPT ![p].status =
            [j \in DOMAIN @ |-> IF j = i THEN (IF raised THEN "failed" ELSE "succeeded")
                                ELSE IF j > i /\ raised THEN "skipped"
                                ELSE @[j]]]

\* the next handler of publication p runs; an error it raises is captured
DomainEvents_deliver(b, p, raised) ==
    LET i == NextHandler(b[p])
    IN [b EXCEPT ![p].status =
            [j \in DOMAIN @ |-> IF j = i THEN (IF raised THEN "failed" ELSE "succeeded")
                                ELSE @[j]]]

\* a subscriber handler runs to its end, or raises
Deliver ==
    /\ \E p \in DOMAIN bus, raised \in BOOLEAN :
          /\ NextHandler(bus[p]) # 0
          /\ bus' = DomainEvents_deliver(bus, p, raised)
    /\ UNCHANGED <<db, db0, req, nextId, nOps, probe, other>>

(***************************************************************************)
(* AntboxService: permission helpers                                       *)
(***************************************************************************)
\* a folder lookup that does not ask the guard
getFolderWithPermission_unguarded(auth, uuid, permission) ==
    LET folderOrErr == NodeService_get(OrRoot(uuid))
    IN IF isLeft(folderOrErr) THEN left(folderOrErr.error)
       ELSE IF ~isFolder(folderOrErr.value) THEN left("BadRequestError")
       ELSE right(folderOrErr.value)

getFolderWithPermission(auth, uuid, permission) ==
    LET folderOrErr == NodeService_get(OrRoot(uuid))
    IN IF isLeft(folderOrErr) THEN left(folderOrErr.error)
       ELSE IF ~isFolder(folderOrErr.value) THEN left("BadRequestError")
       ELSE LET voidOrErr == assertPermission(auth, folderOrErr.value, permission)
            IN IF isLeft(voidOrErr) THEN left(voidOrErr.error)
               ELSE right(folderOrErr.value)

\* a #getFolder that returns the folder without asking the guard
getFolder_unguarded(authCtx, folder) == right(folder)

getFolder(authCtx, folder) ==
    LET assertNodeOrErr == assertCanRead(authCtx, folder)
    IN IF isLeft(assertNodeOrErr) THEN left(assertNodeOrErr.error)
       ELSE right(folder)

(***************************************************************************)
(* AntboxService.get                                                       *)
(***************************************************************************)
\* get up to its first await: the node is fetched; a folder is decided at once
get_node(r) ==
    LET nodeOrErr == NodeService_get(r.uuid)
    IN IF isLeft(nodeOrErr) THEN Return(r, left(nodeOrErr.error))
       ELSE IF isFolder(nodeOrErr.value)
            THEN Return([r EXCEPT !.node = nodeOrErr.value],
                        getFolder(r.principal, nodeOrErr.value))
       ELSE Await([r EXCEPT !.node = nodeOrErr.value], "get:parent")

\* get after its second await: Read is required on the parent of a non-folder
get_parent(r) ==
    LET parentOrErr == getFolderWithPermission(r.principal, r.node.parent, "Read")
    IN IF isLeft(parentOrErr) THEN Return(r, left(parentOrErr.error))
       ELSE Return(r, right(r.node))

Get(authCtx, uuid) ==
    /\ CanIssue
    /\ req' = get_node(NewReq("get", authCtx, uuid, NoMetadata, FALSE, "none"))
    /\ Issued
    /\ UNCHANGED <<db, nextId, probe, bus, other>>

GetParent ==
    /\ req.op = "get" /\ req.pc = "get:parent"
    /\ req' = get_parent(req)
    /\ UNCHANGED <<db, db0, nextId, nOps, probe, bus, other>>

(***************************************************************************)
(* AntboxService.list                                                      *)
(***************************************************************************)
\* a filter that keeps every child
list_filter_all(authCtx, nodes) == nodes

\* listOrErr.value.filter(...): a folder child is kept only if it may be read
list_filter(authCtx, nodes) ==
    {n \in nodes : ~isFolder(n) \/ isRight(assertCanRead(authCtx, n))}

\* list up to its first await: Read is required on the parent
list_parent(r) ==
    LET parentOrErr == getFolderWithPermission(r.principal, r.uuid, "Read")
    IN IF isLeft(parentOrErr) THEN Return(r, left(parentOrErr.error))
       ELSE Await(r, "list:store")

\* the store's list returned
list_store(r, listOrErr) ==
    IF isLeft(listOrErr) THEN Return(r, left(listOrErr.error))
    ELSE Return(r, right([nodes |-> list_filter(r.principal, listOrErr.value.nodes)]))

List(authCtx, uuid) ==
    /\ CanIssue
    /\ req' = list_parent(NewReq("list", authCtx, uuid, NoMetadata, FALSE, "none"))
    /\ Issued
    /\ UNCHANGED <<db, nextId, probe, bus, other>>

ListStore ==
    /\ req.pc = "list:store"
    /\ \E ok \in BOOLEAN :
          req' = list_store(req, IF ok THEN right([nodes |-> NodeService_list(OrRoot(req.uuid))])
                                 ELSE left("StoreError"))
    /\ UNCHANGED <<db, db0, nextId, nOps, probe, bus, other>>

(***************************************************************************)
(* AntboxService.createFile, createMetanode, createFolder                  *)
(***************************************************************************)
\* a create that suspends at the store call without having asked the guard
create_parent_unchecked(r, pc) ==
    LET parentOrErr == NodeService_get(OrRoot(ParentOf(r.metadata)))
    IN IF isLeft(parentOrErr) THEN Return(r, left(parentOrErr.error))
       ELSE Await([r EXCEPT !.parent = parentOrErr.value], pc)

\* the parent is resolved and Write is required on it; the handler then
\* suspends at the store call pc
create_parent(r, pc) ==
    LET parentOrErr ==
            getFolderWithPermission(r.principal, OrRoot(ParentOf(r.metadata)), "Write")
    IN IF isLeft(parentOrErr) THEN Return(r, left(parentOrErr.error))
       ELSE Await([r EXCEPT !.parent = parentOrErr.value], pc)

\* if (voidOrErr.isRight()) DomainEvents.notify(event)
notifyIfRight(r, voidOrErr, event) ==
    IF isRight(voidOrErr) THEN [r EXCEPT !.trace = Append(@, event)] ELSE r

\* the store call of a create handler returned: the event is published on
\* success and the store's result is the handler's result
create_store(r, name, ok, node) ==
    LET voidOrErr == IF ok THEN right(node) ELSE left("StoreError")
        called == [r EXCEPT !.trace = Append(@, StoreCall(name, ok))]
    IN Return(notifyIfRight(called, voidOrErr,
                            Notify("NodeCreatedEvent", r.principal.email, node.uuid, {})),
              voidOrErr)

\* a file created in the actions, aspects or extensions folder is handed to
\* the service of that folder, whose result is the handler's result
CreateFileDelegated(authCtx, file, metadata) ==
    /\ CanIssue
    /\ \/ isActionsFolder(ParentOf(metadata))
       \/ isAspectsFolder(ParentOf(metadata))
       \/ isExtensionsFolder(ParentOf(metadata))
    /\ \E ok \in BOOLEAN :
        LET r == NewReq("createFile", authCtx, UNSET, metadata, FALSE, file)
            called == [r EXCEPT !.trace = Append(@,
                          [StoreCall("createOrReplace", ok) EXCEPT !.kind = "delegate"])]
        IN req' = Return(called, IF ok THEN right(NoNode) ELSE left("StoreError"))
    /\ Issued
    /\ UNCHANGED <<db, nextId, probe, bus, other>>

CreateFile(authCtx, file, metadata) ==
    /\ CanCreate
    /\ ~isActionsFolder(ParentOf(metadata))
    /\ ~isAspectsFolder(ParentOf(metadata))
    /\ ~isExtensionsFolder(ParentOf(metadata))
    /\ req' = create_parent(NewReq("createFile", authCtx, UNSET, metadata, FALSE, file),
                            "createFile:store")
    /\ Issued
    /\ UNCHANGED <<db, nextId, probe, bus, other>>

CreateFileStore ==
    /\ req.pc = "createFile:store"
    /\ \E ok \in BOOLEAN :
        LET node == NodeService_createFile(req.file, req.metadata)
        IN /\ req' = create_store(req, "createFile", ok, node)
           /\ db' = IF ok THEN add(node) ELSE db
           /\ nextId' = IF ok THEN nextId + 1 ELSE nextId
           /\ bus' = published(bus, IF ok THEN right(node) ELSE left("StoreError"),
                               "NodeCreatedEvent", node.uuid)
    /\ UNCHANGED <<db0, nOps, probe, other>>

CreateMetanode(authCtx, metadata) ==
    /\ CanCreate
    /\ req' = create_parent(NewReq("createMetanode", authCtx, UNSET, metadata, FALSE, "none"),
                            "createMetanode:store")
    /\ Issued
    /\ UNCHANGED <<db, nextId, probe, bus, other>>

CreateMetanodeStore ==
    /\ req.pc = "createMetanode:store"
    /\ \E ok \in BOOLEAN :
        LET node == NodeService_createMetanode(req.metadata)
        IN /\ req' = create_store(req, "createMetanode", ok, node)
           /\ db' = IF ok THEN add(node) ELSE db
           /\ nextId' = IF ok THEN nextId + 1 ELSE nextId
           /\ bus' = published(bus, IF ok THEN right(node) ELSE left("StoreError"),
                               "NodeCreatedEvent", node.uuid)
    /\ UNCHANGED <<db0, nOps, probe, other>>

\* createFolder up to its first await
createFolder_parent(r) ==
    IF isSystemFolder(ParentOf(r.metadata)) THEN Return(r, left("BadRequestError"))
    ELSE create_parent(r, "createFolder:store")

\* metadata to which neither the principal as owner nor the permissions of
\* the parent are added
createFolder_metadata_bare(r) ==
    [parent |-> ParentOf(r.metadata), owner |-> UNSET, group |-> UNSET,
     permissions |-> NoPermissions]

\* the metadata createFolder hands to the store
createFolder_metadata(r) ==
    [parent |-> ParentOf(r.metadata), owner |-> r.principal.email,
     group |-> r.principal.group, permissions |-> r.parent.permissions]

CreateFolder(authCtx, metadata) ==
    /\ CanCreate
    /\ req' = createFolder_parent(
                  NewReq("createFolder", authCtx, UNSET, metadata, FALSE, "none"))
    /\ Issued
    /\ UNCHANGED <<db, nextId, probe, bus, other>>

CreateFolderStore ==
    /\ req.pc = "createFolder:store"
    /\ \E ok \in BOOLEAN :
        LET node == NodeService_createFolder(createFolder_metadata(req))
        IN /\ req' = create_store(req, "createFolder", ok, node)
           /\ db' = IF ok THEN add(node) ELSE db
           /\ nextId' = IF ok THEN nextId + 1 ELSE nextId
           /\ bus' = published(bus, IF ok THEN right(node) ELSE left("StoreError"),
                               "NodeCreatedEvent", node.uuid)
    /\ UNCHANGED <<db0, nOps, probe, other>>

(***************************************************************************)
(* AntboxService.update and updateFolder                                   *)
(***************************************************************************)
\* if (metadata.parent): an absent parent and the empty string are falsy
MovesNode(metadata) == ParentOf(metadata) \notin {UNSET, ""}

\* updateFolder up to its first await: Write is required on the folder itself
updateFolder_write(r, folder) ==
    LET assertNodeOrErr == assertCanWrite(r.principal, folder)
    IN IF isLeft(assertNodeOrErr) THEN Return(r, left(assertNodeOrErr.error))
       ELSE IF MovesNode(r.metadata) THEN Await(r, "updateFolder:newParent")
       ELSE Await(r, "updateFolder:store")

\* update up to its first await: the node is fetched, a folder goes to
\* updateFolder
update_node(r) ==
    LET nodeOrErr == NodeService_get(r.uuid)
    IN IF isLeft(nodeOrErr) THEN Return(r, left(nodeOrErr.error))
       ELSE IF isFolder(nodeOrErr.value)
            THEN updateFolder_write([r EXCEPT !.node = nodeOrErr.value], nodeOrErr.value)
       ELSE Await([r EXCEPT !.node = nodeOrErr.value], "update:parent")

\* Write is required on the current parent of a non-folder
update_parent(r) ==
    LET parentOrErr == getFolderWithPermission(r.principal, r.node.parent, "Write")
    IN IF isLeft(parentOrErr) THEN Return(r, left("ForbiddenError"))
       ELSE IF MovesNode(r.metadata) THEN Await(r, "update:newParent")
       ELSE Await(r, "update:store")

\* a move of a non-folder that does not look at the destination
update_newParent_unguarded(r) == Await(r, "update:store")

\* Write is required on the destination of a move of a non-folder
update_newParent(r) ==
    LET newParentOrErr ==
            getFolderWithPermission(r.principal, ParentOf(r.metadata), "Write")
    IN IF isLeft(newParentOrErr) THEN Return(r, left("ForbiddenError"))
       ELSE Await(r, "update:store")

\* Write is required on the destination of a move of a folder
updateFolder_newParent(r) ==
    LET newParentOrErr ==
            getFolderWithPermission(r.principal, ParentOf(r.metadata), "Write")
    IN IF isLeft(newParentOrErr) THEN Return(r, left("ForbiddenError"))
       ELSE Await(r, "updateFolder:store")

\* an update that publishes the event whatever the store returned
update_store_always(r, voidOrErr) ==
    LET called == [r EXCEPT !.trace = Append(@, StoreCall("update", isRight(voidOrErr)))]
    IN Return([called EXCEPT !.trace = Append(@,
                   Notify("NodeUpdatedEvent", r.principal.email, r.uuid,
                          DOMAIN r.metadata))],
              voidOrErr)

\* the store's update returned, for a node that is not a folder
update_store(r, voidOrErr) ==
    LET called == [r EXCEPT !.trace = Append(@, StoreCall("update", isRight(voidOrErr)))]
    IN Return(notifyIfRight(called, voidOrErr,
                            Notify("NodeUpdatedEvent", r.principal.email, r.uuid,
                                   DOMAIN r.metadata)),
              voidOrErr)

\* the store's update returned, for a folder
updateFolder_store(r, voidOrErr) ==
    LET called == [r EXCEPT !.trace = Append(@, StoreCall("update", isRight(voidOrErr)))]
    IN Return(notifyIfRight(called, voidOrErr,
                            Notify("NodeUpdatedEvent", r.node.owner, r.node.uuid,
                                   DOMAIN r.metadata)),
              voidOrErr)

Update(authCtx, uuid, metadata, merge) ==
    /\ CanIssue
    /\ req' = update_node(NewReq("update", authCtx, uuid, metadata, merge, "none"))
    /\ Issued
    /\ UNCHANGED <<db, nextId, probe, bus, other>>

UpdateParent ==
    /\ req.pc = "update:parent"
    /\ req' = update_parent(req)
    /\ UNCHANGED <<db, db0, nextId, nOps, probe, bus, other>>

UpdateNewParent ==
    /\ req.pc = "update:newParent"
    /\ req' = update_newParent(req)
    /\ UNCHANGED <<db, db0, nextId, nOps, probe, bus, other>>

UpdateStore ==
    /\ req.pc = "update:store"
    /\ \E ok \in BOOLEAN :
        LET found == req.uuid \in DOMAIN db
            voidOrErr == IF ~found THEN left("NodeNotFoundError")
                         ELSE IF ok THEN right(NoNode) ELSE left("StoreError")
        IN /\ req' = update_store(req, voidOrErr)
           /\ db' = IF isRight(voidOrErr)
                    THEN update(NodeService_update(db[req.uuid], req.metadata))
                    ELSE db
           /\ bus' = published(bus, voidOrErr, "NodeUpdatedEvent", req.uuid)
    /\ UNCHANGED <<db0, nextId, nOps, probe, other>>

UpdateFolderNewParent ==
    /\ req.pc = "updateFolder:newParent"
    /\ req' = updateFolder_newParent(req)
    /\ UNCHANGED <<db, db0, nextId, nOps, probe, bus, other>>

UpdateFolderStore ==
    /\ req.pc = "updateFolder:store"
    /\ \E ok \in BOOLEAN :
        LET found == req.node.uuid \in DOMAIN db
            voidOrErr == IF ~found THEN left("NodeNotFoundError")
                         ELSE IF ok THEN right(NoNode) ELSE left("StoreError")
        IN /\ req' = updateFolder_store(req, voidOrErr)
           /\ db' = IF isRight(voidOrErr)
                    THEN update(NodeService_update(db[req.node.uuid], req.metadata))
                    ELSE db
           /\ bus' = published(bus, voidOrErr, "NodeUpdatedEvent", req.node.uuid)
    /\ UNCHANGED <<db0, nextId, nOps, probe, other>>

(***************************************************************************)
(* AntboxService.delete                                                    *)
(***************************************************************************)
\* a delete that does not ask for Write on the folder it deletes
delete_node_parentOnly(r) ==
    LET nodeOrErr == NodeService_get(r.uuid)
    IN IF isLeft(nodeOrErr) THEN Return(r, left(nodeOrErr.error))
       ELSE Await([r EXCEPT !.node = nodeOrErr.value], "delete:parent")

\* delete up to its first await: the node is fetched, Write is required on a
\* folder itself
delete_node(r) ==
    LET nodeOrErr == NodeService_get(r.uuid)
    IN IF isLeft(nodeOrErr) THEN Return(r, left(nodeOrErr.error))
       ELSE IF /\ isFolder(nodeOrErr.value)
               /\ isLeft(assertCanWrite(r.principal, nodeOrErr.value))
            THEN Return(r, left("ForbiddenError"))
       ELSE Await([r EXCEPT !.node = nodeOrErr.value], "delete:parent")

\* Write is required on the parent
delete_parent(r) ==
    LET parentOrErr == getFolderWithPermission(r.principal, r.node.parent, "Write")
    IN IF isLeft(parentOrErr) THEN Return(r, left(parentOrErr.error))
       ELSE Await(r, "delete:store")

\* the store's delete returned
delete_store(r, voidOrErr) ==
    LET called == [r EXCEPT !.trace = Append(@, StoreCall("delete", isRight(voidOrErr)))]
    IN Return(notifyIfRight(called, voidOrErr,
                            Notify("NodeDeletedEvent", r.principal.email, r.uuid, {})),
              voidOrErr)

Delete(authCtx, uuid) ==
    /\ CanIssue
    /\ req' = delete_node(NewReq("delete", authCtx, uuid, NoMetadata, FALSE, "none"))
    /\ Issued
    /\ UNCHANGED <<db, nextId, probe, bus, other>>

DeleteParent ==
    /\ req.pc = "delete:parent"
    /\ req' = delete_parent(req)
    /\ UNCHANGED <<db, db0, nextId, nOps, probe, bus, other>>

DeleteStore ==
    /\ req.pc = "delete:store"
    /\ \E ok \in BOOLEAN :
        LET found == req.uuid \in DOMAIN db
            voidOrErr == IF ~found THEN left("NodeNotFoundError")
                         ELSE IF ok THEN right(NoNode) ELSE left("StoreError")
        IN /\ req' = delete_store(req, voidOrErr)
           /\ db' = IF isRight(voidOrErr) THEN delete(req.uuid) ELSE db
           /\ bus' = published(bus, voidOrErr, "NodeDeletedEvent", req.uuid)
    /\ UNCHANGED <<db0, nextId, nOps, probe, other>>

(***************************************************************************)
(* AntboxService.export                                                    *)
(***************************************************************************)
\* export up to its first await: the node is fetched
export_node(r) ==
    LET nodeOrErr == NodeService_get(r.uuid)
    IN IF isLeft(nodeOrErr) THEN Return(r, left(nodeOrErr.error))
       ELSE Await([r EXCEPT !.node = nodeOrErr.value], "export:parent")

\* an export that asks for Read on the parent
export_parent_read(r) ==
    LET parentOrErr == getFolderWithPermission(r.principal, r.node.parent, "Read")
    IN IF isLeft(parentOrErr) THEN Return(r, left(parentOrErr.error))
       ELSE Await(r, "export:store")

\* Export is required on the parent of the node
export_parent(r) ==
    LET parentOrErr == getFolderWithPermission(r.principal, r.node.parent, "Export")
    IN IF isLeft(parentOrErr) THEN Return(r, left(parentOrErr.error))
       ELSE Await(r, "export:store")

Export(authCtx, uuid) ==
    /\ CanIssue
    /\ req' = export_node(NewReq("export", authCtx, uuid, NoMetadata, FALSE, "none"))
    /\ Issued
    /\ UNCHANGED <<db, nextId, probe, bus, other>>

ExportParent ==
    /\ req.pc = "export:parent"
    /\ req' = export_parent(req)
    /\ UNCHANGED <<db, db0, nextId, nOps, probe, bus, other>>

\* the store's export returned: its result is the handler's result
ExportStore ==
    /\ req.pc = "export:store"
    /\ \E ok \in BOOLEAN :
          req' = Return(req, IF ok THEN NodeService_export(req.node.uuid)
                             ELSE left("StoreError"))
    /\ UNCHANGED <<db, db0, nextId, nOps, probe, bus, other>>

(***************************************************************************)
(* AntboxService.copy and duplicate                                        *)
(***************************************************************************)
\* the result of the get a handler awaits: a failure ends the handler, a node
\* lets it go on at pc
after_get(g, pc) ==
    IF g.pc # "done" THEN g
    ELSE IF isLeft(g.result) THEN Return(g, left(g.result.error))
    ELSE Await([g EXCEPT !.result = Pending], pc)

\* a copy that does not ask for Write on the destination
copy_parent_unguarded(r) == Await(r, "copy:get")

\* copy up to its first await: Write is required on the destination
copy_parent(r) ==
    LET parentOrErr == getFolderWithPermission(r.principal, ParentOf(r.metadata), "Write")
    IN IF isLeft(parentOrErr) THEN Return(r, left(parentOrErr.error))
       ELSE Await(r, "copy:get")

\* the store's copy returned
copy_store(r, voidOrErr) ==
    LET called == [r EXCEPT !.trace = Append(@, StoreCall("copy", isRight(voidOrErr)))]
    IN Return(notifyIfRight(called, voidOrErr,
                            Notify("NodeCreatedEvent", r.principal.email,
                                   voidOrErr.value.uuid, {})),
              voidOrErr)

Copy(authCtx, uuid, parent) ==
    /\ CanCreate
    /\ req' = copy_parent(NewReq("copy", authCtx, uuid, [parent |-> parent], FALSE, "none"))
    /\ Issued
    /\ UNCHANGED <<db, nextId, probe, bus, other>>

CopyGet ==
    /\ req.pc = "copy:get"
    /\ req' = after_get(get_node(req), "copy:store")
    /\ UNCHANGED <<db, db0, nextId, nOps, probe, bus, other>>

CopyGetParent ==
    /\ req.op = "copy" /\ req.pc = "get:parent"
    /\ req' = after_get(get_parent(req), "copy:store")
    /\ UNCHANGED <<db, db0, nextId, nOps, probe, bus, other>>

CopyStore ==
    /\ req.pc = "copy:store"
    /\ \E ok \in BOOLEAN :
        LET found == req.uuid \in DOMAIN db
            node == NodeService_copy(db[req.uuid], ParentOf(req.metadata))
            voidOrErr == IF ~found THEN left("NodeNotFoundError")
                         ELSE IF ok THEN right(node) ELSE left("StoreError")
        IN /\ req' = copy_store(req, voidOrErr)
           /\ db' = IF isRight(voidOrErr) THEN add(node) ELSE db
           /\ nextId' = IF isRight(voidOrErr) THEN nextId + 1 ELSE nextId
           /\ bus' = published(bus, voidOrErr, "NodeCreatedEvent", voidOrErr.value.uuid)
    /\ UNCHANGED <<db0, nOps, probe, other>>

\* Write is required on the parent of the node to duplicate
duplicate_parent(r) ==
    LET parentOrErr == getFolderWithPermission(r.principal, r.node.parent, "Write")
    IN IF isLeft(parentOrErr) THEN Return(r, left(parentOrErr.error))
       ELSE Await(r, "duplicate:store")

\* the store's duplicate returned: its result is the handler's result
duplicate_store(r, voidOrErr) ==
    Return([r EXCEPT !.trace = Append(@, StoreCall("duplicate", isRight(voidOrErr)))],
           voidOrErr)

Duplicate(authCtx, uuid) ==
    /\ CanCreate
    /\ req' = after_get(get_node(NewReq("duplicate", authCtx, uuid, NoMetadata,
                                        FALSE, "none")),
                        "duplicate:parent")
    /\ Issued
    /\ UNCHANGED <<db, nextId, probe, bus, other>>

DuplicateGetParent ==
    /\ req.op = "duplicate" /\ req.pc = "get:parent"
    /\ req' = after_get(get_parent(req), "duplicate:parent")
    /\ UNCHANGED <<db, db0, nextId, nOps, probe, bus, other>>

DuplicateParent ==
    /\ req.pc = "duplicate:parent"
    /\ req' = duplicate_parent(req)
    /\ UNCHANGED <<db, db0, nextId, nOps, probe, bus, other>>

DuplicateStore ==
    /\ req.pc = "duplicate:store"
    /\ \E ok \in BOOLEAN :
        LET found == req.uuid \in DOMAIN db
            node == NodeService_duplicate(db[req.uuid])
            voidOrErr == IF ~found THEN left("NodeNotFoundError")
                         ELSE IF ok THEN right(node) ELSE left("StoreError")
        IN /\ req' = duplicate_store(req, voidOrErr)
           /\ db' = IF isRight(voidOrErr) THEN add(node) ELSE db
           /\ nextId' = IF isRight(voidOrErr) THEN nextId + 1 ELSE nextId
    /\ UNCHANGED <<db0, nOps, probe, bus, other>>

(***************************************************************************)
(* AntboxService.updateFile                                                *)
(***************************************************************************)
\* the store's updateFile returned
updateFile_store(r, voidOrErr) ==
    LET called == [r EXCEPT !.trace = Append(@, StoreCall("updateFile", isRight(voidOrErr)))]
    IN Return(notifyIfRight(called, voidOrErr,
                            Notify("NodeContentUpdatedEvent", r.principal.email,
                                   r.uuid, {})),
              voidOrErr)

UpdateFileRejected(authCtx, uuid, file) ==
    /\ CanIssue
    /\ isSystemFolder(uuid)
    /\ req' = Return(NewReq("updateFile", authCtx, uuid, NoMetadata, FALSE, file),
                     left("BadRequestError"))
    /\ Issued
    /\ UNCHANGED <<db, nextId, probe, bus, other>>

UpdateFile(authCtx, uuid, file) ==
    /\ CanIssue
    /\ ~isSystemFolder(uuid)
    /\ \E ok \in BOOLEAN :
        LET found == uuid \in DOMAIN db
            voidOrErr == IF ~found THEN left("NodeNotFoundError")
                         ELSE IF ok THEN right(NoNode) ELSE left("StoreError")
        IN /\ req' = updateFile_store(
                        NewReq("updateFile", authCtx, uuid, NoMetadata, FALSE, file),
                        voidOrErr)
           /\ db' = IF isRight(voidOrErr)
                    THEN update(NodeService_updateFile(db[uuid], file))
                    ELSE db
           /\ bus' = published(bus, voidOrErr, "NodeContentUpdatedEvent", uuid)
    /\ Issued
    /\ UNCHANGED <<nextId, probe, other>>

(***************************************************************************)
(* AntboxService.query and evaluate                                        *)
(***************************************************************************)
\* query hands the filters to the store; the principal is not looked at
Query(authCtx, filters, pageToken) ==
    /\ CanIssue
    /\ \E ok \in BOOLEAN :
          req' = Return(NewReq("query", authCtx, UNSET, NoMetadata, FALSE, "none"),
                        IF ok THEN NodeService_query(filters, PageSize, pageToken)
                        ELSE left("StoreError"))
    /\ Issued
    /\ UNCHANGED <<db, nextId, probe, bus, other>>

\* evaluate up to the first await of its get
EvaluateNode(authCtx, uuid) ==
    /\ CanIssue
    /\ req' = after_get(get_node(NewReq("evaluate", authCtx, uuid, NoMetadata,
                                        FALSE, "none")),
                        "evaluate:store")
    /\ Issued
    /\ UNCHANGED <<db, nextId, probe, bus, other>>

EvaluateGetParent ==
    /\ req.op = "evaluate" /\ req.pc = "get:parent"
    /\ req' = after_get(get_parent(req), "evaluate:store")
    /\ UNCHANGED <<db, db0, nextId, nOps, probe, bus, other>>

\* the store's evaluate returned: its result is the handler's result
EvaluateStore ==
    /\ req.pc = "evaluate:store"
    /\ \E ok \in BOOLEAN :
          req' = Return(req, IF ok THEN NodeService_evaluate(req.uuid)
                             ELSE left("AggregationFormulaError"))
    /\ UNCHANGED <<db, db0, nextId, nOps, probe, bus, other>>

(***************************************************************************)
(* ActionService.run and AntboxService.runAction                           *)
(***************************************************************************)
\* the actions of the action repository
Actions == {"A"}

\* ActionService.get: the action, or nothing
ActionService_get(uuid) == IF uuid \in Actions THEN uuid ELSE UNSET

\* what the run procedure of an action does: it ends with nothing, returns an
\* error or raises one
RunOutcomes == {"void", "returned", "raised"}

\* the run procedure of the action ended
ActionRan(outcome) ==
    [kind |-> "action", name |-> outcome, ok |-> outcome = "void", actor |-> "-",
     uuid |-> "-", fields |-> {}]

\* a run that drops the error the action returns
ActionService_run_dropping(r, outcome) ==
    LET ran == [r EXCEPT !.trace = Append(@, ActionRan(outcome))]
    IN IF outcome = "raised" THEN Return(ran, left("ActionError"))
       ELSE Return(ran, right(NoNode))

\* ActionService.run after the action's run procedure ended: an error it
\* raised, or returned (if (error) throw error), rejects the promise of run
ActionService_run(r, outcome) ==
    LET ran == [r EXCEPT !.trace = Append(@, ActionRan(outcome))]
    IN IF outcome = "raised" THEN Return(ran, left("ActionError"))
       ELSE IF outcome = "returned" THEN Return(ran, left("ActionError"))
       ELSE Return(ran, right(NoNode))

\* ActionService.run up to the call of the action: an action that is not
\* found rejects the promise of run
ActionService_run_get(r) ==
    IF ActionService_get(r.uuid) = UNSET THEN Return(r, left("ActionNotFoundError"))
    ELSE Await(r, "runAction:run")

RunAction(authCtx, uuid) ==
    /\ CanIssue
    /\ req' = ActionService_run_get(
                  NewReq("runAction", authCtx, uuid, NoMetadata, FALSE, "none"))
    /\ Issued
    /\ UNCHANGED <<db, nextId, probe, bus, other>>

RunActionRun ==
    /\ req.pc = "runAction:run"
    /\ \E outcome \in RunOutcomes : req' = ActionService_run(req, outcome)
    /\ UNCHANGED <<db, db0, nextId, nOps, probe, bus, other>>

(***************************************************************************)
(* move_to_folder                                                          *)
(***************************************************************************)
\* Promise.all(batch).then(() => {}): every update of the batch has returned
\* and its promise is settled with its result (whose error is "none" for a
\* success); what the updates returned is dropped, and ActionService.run gets
\* no error
move_to_folder_then(batch, r) ==
    LET Settled(u) ==
            [kind |-> "settled", name |-> u.result.error, ok |-> isRight(u.result),
             actor |-> u.principal.email, uuid |-> u.uuid,
             fields |-> DOMAIN u.metadata]
        settled == [r EXCEPT !.trace = [i \in DOMAIN batch |-> Settled(batch[i])]]
    IN ActionService_run(settled, "void")

\* ActionService.run calls the run procedure of move_to_folder, which starts
\* one update for every uuid; the handlers of the batch, which belong to one
\* caller, then go on one at a time
MoveToFolderRun(authCtx, uuids, parent) ==
    /\ CanIssue
    /\ other.req.pc = "idle"
    /\ LET batch == [i \in DOMAIN uuids |->
                        update_node(NewReq("update", authCtx, uuids[i],
                                           [parent |-> parent], TRUE, "none"))]
       IN /\ req' = batch[1]
          /\ other' = [req |-> IF Len(uuids) = 2 THEN batch[2] ELSE IdleReq,
                       nOps |-> nOps + 1, db0 |-> db]
    /\ Issued
    /\ UNCHANGED <<db, nextId, probe, bus>>

\* every promise of the batch is settled: run returns to ActionService.run,
\* which returns to the caller of runAction
MoveToFolderThen ==
    /\ req.op = "update" /\ req.merge /\ req.pc = "done"
    /\ other.req.pc \in {"idle", "done"}
    /\ LET batch == IF other.req.pc = "done" THEN <<req, other.req>> ELSE <<req>>
           r == NewReq("runAction", req.principal, "move_to_folder", req.metadata,
                       TRUE, "none")
       IN req' = move_to_folder_then(batch, r)
    /\ other' = [other EXCEPT !.req = IdleReq]
    /\ UNCHANGED <<db, db0, nextId, nOps, probe, bus>>

(***************************************************************************)
(* The caller                                                              *)
(***************************************************************************)
\* the caller takes the handler's result; the next request may be issued
Respond ==
    /\ req.pc = "done"
    /\ req' = IdleReq
    /\ db0' = db
    /\ UNCHANGED <<db, nextId, nOps, probe, bus, other>>

(***************************************************************************)
(* Spec: the orchestrator over a well-formed tree                          *)
(***************************************************************************)
Principals == {Admin, Alice, Carol}

GroupRead == [group |-> {"Read"}, authenticated |-> {}, anonymous |-> {}]
AuthenticatedWrite ==
    [group |-> {}, authenticated |-> {"Read", "Write"}, anonymous |-> {"Read"}]

\* the permission sets the folders of the tree start with, and the ones an
\* update may set
PermissionChoices == {NoPermissions, GroupRead, AuthenticatedWrite}

Folder(uuid, parent, owner, group, permissions) ==
    [uuid |-> uuid, kind |-> "Folder", parent |-> parent, owner |-> owner,
     group |-> group, permissions |-> permissions, content |-> "none"]

SystemTree ==
    {Folder(ROOT_FOLDER_UUID, UNSET, ROOT_USER_EMAIL, "--admins--", NoPermissions),
     Folder(SYSTEM_FOLDER_UUID, ROOT_FOLDER_UUID, ROOT_USER_EMAIL, "--admins--",
            NoPermissions),
     Folder(ACTIONS_FOLDER_UUID, SYSTEM_FOLDER_UUID, ROOT_USER_EMAIL, "--admins--",
            NoPermissions),
     Folder(ASPECTS_FOLDER_UUID, SYSTEM_FOLDER_UUID, ROOT_USER_EMAIL, "--admins--",
            NoPermissions),
     Folder(EXT_FOLDER_UUID, SYSTEM_FOLDER_UUID, ROOT_USER_EMAIL, "--admins--",
            NoPermissions)}

\* a tree: the root and system folders, folder F of alice (group eng) with
\* file N and folder H of alice (no grants) in it, and folder G of the root
\* user (group eng) with smart folder S in it
Tree(permsF, permsG) ==
    LET nodes == SystemTree \cup
            {Folder("F", ROOT_FOLDER_UUID, ALICE, "eng", permsF),
             Folder("G", ROOT_FOLDER_UUID, ROOT_USER_EMAIL, "eng", permsG),
             Folder("H", "F", ALICE, "eng", NoPermissions),
             [uuid |-> "S", kind |-> "SmartFolder", parent |-> "G",
              owner |-> ROOT_USER_EMAIL, group |-> "eng",
              permissions |-> NoPermissions, content |-> "none"],
             [uuid |-> "N", kind |-> "File", parent |-> "F", owner |-> ALICE,
              group |-> "eng", permissions |-> NoPermissions, content |-> "c0"]}
    IN [u \in {n.uuid : n \in nodes} |-> CHOOSE n \in nodes : n.uuid = u]

\* the uuids a request may name
Targets == {ROOT_FOLDER_UUID, SYSTEM_FOLDER_UUID, "F", "G", "H", "N", "X1", "missing"}

\* the parents a request may name
Parents == {ROOT_FOLDER_UUID, SYSTEM_FOLDER_UUID, ACTIONS_FOLDER_UUID,
            ASPECTS_FOLDER_UUID, EXT_FOLDER_UUID, "F", "G", "N", "missing"}

\* the parents a list request may name; Root is listed when none is given
Folders == {UNSET, SYSTEM_FOLDER_UUID, "F", "G", "N", "missing"}

Files == {"c1"}

\* the filter lists a query may carry
Filters == {<< >>, <<[field |-> "parent", value |-> "F"]>>,
            <<[field |-> "kind", value |-> "Folder"],
              [field |-> "owner", value |-> ALICE]>>}

\* the pages a query may ask for
PageTokens == {1, 2}

\* the metadata of a create request
CreateMetadata == [parent : Parents \cup {UNSET}]

\* the folders a move or a copy may name as destination
Destinations == {ROOT_FOLDER_UUID, SYSTEM_FOLDER_UUID, "F", "G", "N", "missing"}

\* the metadata of an update request; the body of a request may carry the
\* empty string as parent
UpdateMetadata ==
    [parent : Destinations \cup {""}] \cup [permissions : PermissionChoices]

Init ==
    /\ \E permsF \in {GroupRead, AuthenticatedWrite},
          permsG \in {NoPermissions, GroupRead} :
          db = Tree(permsF, permsG)
    /\ db0 = db
    /\ req = IdleReq
    /\ nextId = 0
    /\ nOps = 0
    /\ probe = NoProbe
    /\ bus = << >>
    /\ other = [req |-> IdleReq, nOps |-> 0, db0 |-> << >>]

Next ==
    \/ \E authCtx \in Principals, uuid \in Targets : Get(authCtx, uuid)
    \/ GetParent
    \/ \E authCtx \in Principals, uuid \in Folders : List(authCtx, uuid)
    \/ ListStore
    \/ \E authCtx \in Principals, file \in Files, metadata \in CreateMetadata :
          CreateFileDelegated(authCtx, file, metadata)
    \/ \E authCtx \in Principals, file \in Files, metadata \in CreateMetadata :
          CreateFile(authCtx, file, metadata)
    \/ CreateFileStore
    \/ \E authCtx \in Principals, metadata \in CreateMetadata :
          CreateMetanode(authCtx, metadata)
    \/ CreateMetanodeStore
    \/ \E authCtx \in Principals, metadata \in CreateMetadata :
          CreateFolder(authCtx, metadata)
    \/ CreateFolderStore
    \/ \E authCtx \in Principals, uuid \in Targets, metadata \in UpdateMetadata :
          Update(authCtx, uuid, metadata, FALSE)
    \/ UpdateParent
    \/ UpdateNewParent
    \/ UpdateStore
    \/ UpdateFolderNewParent
    \/ UpdateFolderStore
    \/ \E authCtx \in Principals, uuid \in Targets : Delete(authCtx, uuid)
    \/ DeleteParent
    \/ DeleteStore
    \/ \E authCtx \in Principals, filters \in Filters, pageToken \in PageTokens :
          Query(authCtx, filters, pageToken)
    \/ \E authCtx \in Principals, uuid \in {"S", "N", "G", "missing"} :
          EvaluateNode(authCtx, uuid)
    \/ EvaluateGetParent
    \/ EvaluateStore
    \/ \E authCtx \in Principals, uuid \in {"A", "missing"} : RunAction(authCtx, uuid)
    \/ RunActionRun
    \/ \E authCtx \in Principals, uuid \in Targets : Export(authCtx, uuid)
    \/ ExportParent
    \/ ExportStore
    \/ \E authCtx \in Principals, uuid \in Targets, parent \in Destinations :
          Copy(authCtx, uuid, parent)
    \/ CopyGet
    \/ CopyGetParent
    \/ CopyStore
    \/ \E authCtx \in Principals, uuid \in Targets : Duplicate(authCtx, uuid)
    \/ DuplicateGetParent
    \/ DuplicateParent
    \/ DuplicateStore
    \/ \E authCtx \in Principals, uuid \in Targets, file \in Files :
          UpdateFileRejected(authCtx, uuid, file)
    \/ \E authCtx \in Principals, uuid \in Targets, file \in Files :
          UpdateFile(authCtx, uuid, file)
    \/ Respond

Spec == Init /\ [][Next]_vars

(***************************************************************************)
(* BusSpec: the orchestrator and the subscribers of its events             *)
(***************************************************************************)
BusPrincipals == {Admin, Alice}

\* the metadata of the create and update requests of BusSpec
BusCreateMetadata == [parent : {"F", "G"}]
BusUpdateMetadata == [parent : {"G"}] \cup [permissions : {GroupRead}]

BusInit ==
    /\ db = Tree(AuthenticatedWrite, GroupRead)
    /\ db0 = db
    /\ req = IdleReq
    /\ nextId = 0
    /\ nOps = 0
    /\ probe = NoProbe
    /\ bus = << >>
    /\ other = [req |-> IdleReq, nOps |-> 0, db0 |-> << >>]

BusNext ==
    \/ \E authCtx \in BusPrincipals, file \in Files, metadata \in BusCreateMetadata :
          CreateFile(authCtx, file, metadata)
    \/ CreateFileStore
    \/ \E authCtx \in BusPrincipals, metadata \in BusCreateMetadata :
          CreateFolder(authCtx, metadata)
    \/ CreateFolderStore
    \/ \E authCtx \in BusPrincipals, uuid \in {"F", "N"}, metadata \in BusUpdateMetadata :
          Update(authCtx, uuid, metadata, FALSE)
    \/ UpdateParent
    \/ UpdateNewParent
    \/ UpdateStore
    \/ UpdateFolderNewParent
    \/ UpdateFolderStore
    \/ Deliver
    \/ Respond

BusSpec == BusInit /\ [][BusNext]_vars

(***************************************************************************)
(* RaceSpec: two callers, one handler running at a time                    *)
(***************************************************************************)
\* the handler of req is suspended at an await, or has returned, and the
\* handler of the other caller goes on; each caller keeps its own request,
\* request count and snapshot
Switch ==
    /\ req' = other.req
    /\ nOps' = other.nOps
    /\ db0' = other.db0
    /\ other' = [req |-> req, nOps |-> nOps, db0 |-> db0]
    /\ UNCHANGED <<db, nextId, probe, bus>>

\* alice may write to F, which she owns, and to G, which grants Write to
\* every authenticated principal
RaceInit ==
    /\ db = Tree(AuthenticatedWrite, AuthenticatedWrite)
    /\ db0 = db
    /\ req = IdleReq
    /\ nextId = 0
    /\ nOps = 0
    /\ probe = NoProbe
    /\ bus = << >>
    /\ other = [req |-> IdleReq, nOps |-> 0, db0 |-> << >>]

RaceNext ==
    \/ \E authCtx \in {Admin, Alice}, file \in Files :
          CreateFile(authCtx, file, [parent |-> "G"])
    \/ CreateFileStore
    \/ \E authCtx \in {Admin, Alice}, uuid \in {"N", "G"},
          metadata \in {[parent |-> "G"], [permissions |-> NoPermissions]} :
          Update(authCtx, uuid, metadata, FALSE)
    \/ UpdateParent
    \/ UpdateNewParent
    \/ UpdateStore
    \/ UpdateFolderNewParent
    \/ UpdateFolderStore
    \/ \E authCtx \in {Admin, Alice} : Delete(authCtx, "G")
    \/ DeleteParent
    \/ DeleteStore
    \/ Switch
    \/ Respond

RaceSpec == RaceInit /\ [][RaceNext]_vars

(***************************************************************************)
(* MoveSpec: runs of move_to_folder                                        *)
(***************************************************************************)
MoveInit ==
    /\ \E permsF \in {GroupRead, AuthenticatedWrite},
          permsG \in {NoPermissions, AuthenticatedWrite} :
          db = Tree(permsF, permsG)
    /\ db0 = db
    /\ req = IdleReq
    /\ nextId = 0
    /\ nOps = 0
    /\ probe = NoProbe
    /\ bus = << >>
    /\ other = [req |-> IdleReq, nOps |-> 0, db0 |-> << >>]

MoveNext ==
    \/ \E authCtx \in Principals, parent \in {"G", "H", "missing"},
          uuids \in UNION {[1..n -> {"N", "F", "S", "missing"}] : n \in {1, 2}} :
          MoveToFolderRun(authCtx, uuids, parent)
    \/ UpdateParent
    \/ UpdateNewParent
    \/ UpdateStore
    \/ UpdateFolderNewParent
    \/ UpdateFolderStore
    \/ Switch
    \/ MoveToFolderThen
    \/ req.op = "runAction" /\ Respond

MoveSpec == MoveInit /\ [][MoveNext]_vars

(***************************************************************************)
(* Claims about the orchestrator (Spec)                                    *)
(***************************************************************************)
Done(op) == req.op = op /\ req.pc = "done"

\* the ladder grants p the capability on the folder uuid of the store as it
\* was when the request was issued
Grants(p, uuid, cap) ==
    /\ uuid \in DOMAIN db0
    /\ db0[uuid].kind = "Folder"
    /\ LadderDecision(p, db0[uuid], cap) = Granted

\* the ladder denies p the capability on the existing folder uuid
Denies(p, uuid, cap) ==
    /\ uuid \in DOMAIN db0
    /\ db0[uuid].kind = "Folder"
    /\ LadderDecision(p, db0[uuid], cap) = Denied

\* the request has called a method of the node store that changes it
StoreCalls == {i \in DOMAIN req.trace : req.trace[i].kind = "store"}

StoreSuccesses == {i \in StoreCalls : req.trace[i].ok}

Notifications == {i \in DOMAIN req.trace : req.trace[i].kind = "notify"}

CreateOps == {"createFile", "createMetanode", "createFolder"}

\* the node the request names may be read by its principal: Read on the node
\* itself for a folder, on its parent folder otherwise
Readable ==
    /\ req.uuid \in DOMAIN db0
    /\ IF db0[req.uuid].kind = "Folder"
       THEN Grants(req.principal, req.uuid, "Read")
       ELSE Grants(req.principal, db0[req.uuid].parent, "Read")

\* C4: get returns the node only if the guard grants Read on the node itself
\* (a folder) or on its parent folder (any other node), and otherwise returns
\* a failure and no node; a member of the folder's group with a group Read
\* grant gets the folder, a non-admin, non-owner outsider without anonymous or
\* authenticated Read grant gets ForbiddenError.
C4_GetRequiresRead ==
    Done("get") =>
        /\ isRight(req.result) => Readable /\ req.result.value = db0[req.uuid]
        /\ ~Readable => isLeft(req.result) /\ req.result.value = NoNode
        /\ req.uuid \in DOMAIN db0 /\ db0[req.uuid].kind = "Folder" =>
            LET f == db0[req.uuid]
                p == req.principal
            IN /\ (f.group \in p.groups /\ "Read" \in f.permissions.group)
                    => req.result = right(f)
               /\ (/\ f.uuid # ROOT_FOLDER_UUID
                   /\ ~p.isAdmin /\ p.email # f.owner /\ f.group \notin p.groups
                   /\ "Read" \notin f.permissions.anonymous
                   /\ "Read" \notin f.permissions.authenticated)
                    => req.result = left("ForbiddenError")

\* a member of the folder's group, neither admin nor owner, gets a folder
\* whose only grant is Read to the group
C4_Witness ==
    /\ Done("get")
    /\ req.uuid \in DOMAIN db0
    /\ db0[req.uuid].kind = "Folder"
    /\ db0[req.uuid].uuid # ROOT_FOLDER_UUID
    /\ db0[req.uuid].permissions = GroupRead
    /\ db0[req.uuid].group \in req.principal.groups
    /\ db0[req.uuid].owner # req.principal.email
    /\ ~req.principal.isAdmin
    /\ req.result = right(db0[req.uuid])

\* C5: an update that moves an existing node (folder or not) to a folder G on
\* which the principal lacks Write returns ForbiddenError, performs no store
\* update (the store is unchanged) and publishes no event.
C5_MoveRequiresWriteOnDestination ==
    (/\ Done("update")
     /\ req.uuid \in DOMAIN db0
     /\ "parent" \in DOMAIN req.metadata
     /\ Denies(req.principal, req.metadata.parent, "Write"))
        => /\ req.result = left("ForbiddenError")
           /\ StoreCalls = {}
           /\ Notifications = {}
           /\ db = db0

\* the principal may write to the node's current parent, and the move stops
\* at the destination
C5_Witness ==
    /\ Done("update")
    /\ req.uuid \in DOMAIN db0
    /\ db0[req.uuid].kind # "Folder"
    /\ "parent" \in DOMAIN req.metadata
    /\ Grants(req.principal, db0[req.uuid].parent, "Write")
    /\ Denies(req.principal, req.metadata.parent, "Write")
    /\ req.result = left("ForbiddenError")
    /\ db[req.uuid].parent = db0[req.uuid].parent

\* C6 as stated: update reaches the store only if the guard grants Write on
\* the current parent of the node, for every node variant (Root, which has no
\* parent, set aside).
C6_UpdateRequiresWriteOnParent ==
    (/\ req.op = "update"
     /\ StoreCalls # {}
     /\ req.uuid # ROOT_FOLDER_UUID)
        => /\ req.uuid \in DOMAIN db0
           /\ Grants(req.principal, db0[req.uuid].parent, "Write")

\* C7 as stated: no create operation calls the node store for a node whose
\* parent is the System folder or one of its reserved sub-areas.
C7_NoCreateInSystemFolders ==
    (/\ req.op \in CreateOps
     /\ isSystemFolder(ParentOf(req.metadata)))
        => /\ StoreCalls = {}
           /\ \A u \in DOMAIN db \ DOMAIN db0 : ~isSystemFolder(db[u].parent)

\* C8: a create operation calls the node store only if the guard grants Write
\* on the resolved parent, which is Root when no parent is given; a non-admin
\* never creates a node without naming a parent, and a parent that is missing
\* or not a folder yields a failure and no store write.
C8_CreateRequiresWriteOnParent ==
    req.op \in CreateOps =>
        LET parent == IF ParentOf(req.metadata) = UNSET THEN ROOT_FOLDER_UUID
                      ELSE ParentOf(req.metadata)
        IN /\ StoreCalls # {} => Grants(req.principal, parent, "Write")
           /\ db # db0 => Grants(req.principal, parent, "Write")
           /\ (ParentOf(req.metadata) = UNSET /\ ~req.principal.isAdmin)
                => StoreCalls = {} /\ db = db0
           /\ (parent \notin DOMAIN db0 \/ db0[parent].kind # "Folder")
                => /\ StoreCalls = {} /\ db = db0
                   /\ req.pc = "done" => isLeft(req.result)

\* a non-admin created a node in a folder it may write to
C8_Witness ==
    /\ req.op \in CreateOps
    /\ req.pc = "done"
    /\ ~req.principal.isAdmin
    /\ isRight(req.result)
    /\ StoreSuccesses # {}
    /\ \E u \in DOMAIN db \ DOMAIN db0 : db[u].parent = ParentOf(req.metadata)

\* the event a successful call of a store method is followed by
EventOf(name) ==
    CASE name \in {"createFile", "createMetanode", "createFolder", "copy", "duplicate"}
            -> "NodeCreatedEvent"
      [] name = "update" -> "NodeUpdatedEvent"
      [] name = "delete" -> "NodeDeletedEvent"
      [] name = "updateFile" -> "NodeContentUpdatedEvent"

\* C9: a domain event is published only after the corresponding store
\* mutation returned success; an operation that fails its permission check or
\* whose store call fails publishes no event.
C9_EventOnlyAfterStoreSuccess ==
    /\ \A i \in Notifications :
          \E j \in StoreSuccesses :
             j < i /\ EventOf(req.trace[j].name) = req.trace[i].name
    /\ (req.pc = "done" /\ isLeft(req.result)) => Notifications = {}
    /\ StoreSuccesses = {} => Notifications = {}

\* a store call failed and the operation published nothing
C9_Witness ==
    /\ req.pc = "done"
    /\ StoreCalls # {}
    /\ StoreSuccesses = {}
    /\ Notifications = {}
    /\ req.result = left("StoreError")

\* C10 as stated: an operation that has successfully mutated the node store
\* has published the event of that mutation when it returns.
C10_EventAfterEveryMutation ==
    req.pc = "done" =>
        \A j \in StoreSuccesses :
           \E i \in Notifications :
              j < i /\ req.trace[i].name = EventOf(req.trace[j].name)

(***************************************************************************)
(* Claims about event publication (BusSpec)                                *)
(***************************************************************************)
\* the step publishes an event
Publishes == Len(bus') = Len(bus) + 1

\* C11: publication is fire-and-forget: the step of a create or update handler
\* that publishes its event is the step in which the handler returns the
\* store's success result, and no subscriber of that event has run by then;
\* the handler never waits for a subscriber.
C11_PublishDoesNotWait ==
    [][Publishes =>
         /\ req'.pc = "done"
         /\ isRight(req'.result)
         /\ bus'[Len(bus')].handlers = subscribeToDomainEvents(bus'[Len(bus')].eventId)
         /\ \A i \in DOMAIN bus'[Len(bus')].status :
               bus'[Len(bus')].status[i] = "scheduled"]_vars

\* the caller has the success result of a create, and the subscribers of its
\* NodeCreated event have not run
C11_Witness ==
    /\ req.pc = "idle"
    /\ nOps > 0
    /\ DOMAIN db # DOMAIN db0 \/ nextId > 0
    /\ \E p \in DOMAIN bus :
          /\ bus[p].eventId = "NodeCreatedEvent"
          /\ Len(bus[p].handlers) = 2
          /\ \A i \in DOMAIN bus[p].status : bus[p].status[i] = "scheduled"

\* C12: a subscriber that raises an error stops nothing: every handler
\* registered for the event is still run, in registration order, none is
\* dropped, and the operation that published the event returns the store's
\* success result.
C12_HandlerFailureIsolated ==
    /\ \A p \in DOMAIN bus :
          /\ bus[p].handlers = subscribeToDomainEvents(bus[p].eventId)
          /\ DOMAIN bus[p].status = DOMAIN bus[p].handlers
          /\ \A i \in DOMAIN bus[p].status :
                /\ bus[p].status[i] \in {"scheduled", "succeeded", "failed"}
                /\ \A j \in 1..(i - 1) :
                      bus[p].status[i] # "scheduled" => bus[p].status[j] # "scheduled"
    /\ (req.pc = "done" /\ StoreSuccesses # {}) => isRight(req.result)
    /\ (req.pc = "done" /\ Notifications # {}) => isRight(req.result)

\* the first subscriber of an update's event raised, the second ran to its
\* end, and the update returns success
C12_Witness ==
    /\ Done("update")
    /\ isRight(req.result)
    /\ Notifications # {}
    /\ bus # << >>
    /\ bus[Len(bus)].eventId = "NodeUpdatedEvent"
    /\ bus[Len(bus)].status = <<"failed", "succeeded">>

(***************************************************************************)
(* Claims about list, delete, copy and export (Spec)                       *)
(***************************************************************************)
\* the nodes of the store, as it was when the request was issued, whose parent
\* is the folder uuid
Children(uuid) == {db0[u] : u \in {v \in DOMAIN db0 : db0[v].parent = uuid}}

\* C13: list fails unless the guard grants Read on the parent (Root when none
\* is given); when it succeeds the result is exactly the children of the
\* parent without the folder children on which the guard denies Read.
C13_ListFiltersFolders ==
    Done("list") =>
        LET parent == IF req.uuid = UNSET THEN ROOT_FOLDER_UUID ELSE req.uuid
            p == req.principal
        IN /\ ~Grants(p, parent, "Read") => isLeft(req.result)
           /\ isRight(req.result) =>
                /\ req.result.value.nodes =
                      {n \in Children(parent) :
                          n.kind # "Folder" \/ LadderDecision(p, n, "Read") = Granted}
                /\ \A n \in Children(parent) :
                      n.kind # "Folder" => n \in req.result.value.nodes
                /\ \A n \in req.result.value.nodes :
                      n.kind = "Folder" => LadderDecision(p, n, "Read") = Granted

\* a non-admin lists Root and gets one of its folders but not another
C13_Witness ==
    /\ Done("list")
    /\ req.uuid = UNSET
    /\ ~req.principal.isAdmin
    /\ isRight(req.result)
    /\ \E n \in Children(ROOT_FOLDER_UUID) : n \in req.result.value.nodes
    /\ \E n \in Children(ROOT_FOLDER_UUID) : n \notin req.result.value.nodes

\* C14: delete calls the store, and removes the node, only if the guard grants
\* Write on the node's parent and, for a folder, on the node itself; otherwise
\* it returns a failure, the store is unchanged and no event is published. On
\* success exactly one NodeDeleted event with the principal's email and the
\* uuid is published.
C14_DeleteRequiresWrite ==
    req.op = "delete" =>
        LET p == req.principal
            allowed ==
                /\ req.uuid \in DOMAIN db0
                /\ Grants(p, IF db0[req.uuid].parent = UNSET THEN ROOT_FOLDER_UUID
                             ELSE db0[req.uuid].parent, "Write")
                /\ db0[req.uuid].kind = "Folder" => Grants(p, req.uuid, "Write")
        IN /\ StoreCalls # {} => allowed
           /\ db # db0 => allowed /\ db = [u \in DOMAIN db0 \ {req.uuid} |-> db0[u]]
           /\ (req.pc = "done" /\ ~allowed) => isLeft(req.result)
           /\ (req.pc = "done" /\ isLeft(req.result)) => db = db0 /\ Notifications = {}
           /\ (req.pc = "done" /\ isRight(req.result)) =>
                /\ req.uuid \notin DOMAIN db
                /\ Cardinality(Notifications) = 1
                /\ \A i \in Notifications :
                      /\ req.trace[i].name = "NodeDeletedEvent"
                      /\ req.trace[i].actor = p.email
                      /\ req.trace[i].uuid = req.uuid

\* a non-admin deleted a folder: the guard grants it Write on the folder and
\* on the folder's parent
C14_Witness ==
    /\ Done("delete")
    /\ ~req.principal.isAdmin
    /\ req.uuid \in DOMAIN db0
    /\ db0[req.uuid].kind = "Folder"
    /\ Grants(req.principal, db0[req.uuid].parent, "Write")
    /\ Grants(req.principal, req.uuid, "Write")
    /\ isRight(req.result)
    /\ req.uuid \notin DOMAIN db
    /\ Cardinality(Notifications) = 1

\* C15: copy calls the store, and creates the copy, only if the guard grants
\* Write on the destination folder and the source may be read under the rules
\* of get; on success NodeCreated is published for the new copy, and when a
\* precondition fails the store is unchanged and no event is published.
C15_CopyRequiresWriteAndRead ==
    req.op = "copy" =>
        LET p == req.principal
            allowed == Grants(p, ParentOf(req.metadata), "Write") /\ Readable
        IN /\ StoreCalls # {} => allowed
           /\ db # db0 => allowed
           /\ (req.pc = "done" /\ ~allowed) =>
                isLeft(req.result) /\ db = db0 /\ Notifications = {}
           /\ (req.pc = "done" /\ isRight(req.result)) =>
                /\ Cardinality(DOMAIN db \ DOMAIN db0) = 1
                /\ \A u \in DOMAIN db \ DOMAIN db0 : req.result.value = db[u]
                /\ Cardinality(Notifications) = 1
                /\ \A i \in Notifications :
                      /\ req.trace[i].name = "NodeCreatedEvent"
                      /\ req.trace[i].actor = p.email
                      /\ req.trace[i].uuid \in DOMAIN db \ DOMAIN db0

\* a non-admin copied a file it may read into a folder it may write to
C15_Witness ==
    /\ Done("copy")
    /\ ~req.principal.isAdmin
    /\ isRight(req.result)
    /\ req.uuid \in DOMAIN db0
    /\ db0[req.uuid].kind # "Folder"
    /\ Grants(req.principal, ParentOf(req.metadata), "Write")
    /\ \E u \in DOMAIN db \ DOMAIN db0 : db[u].parent = ParentOf(req.metadata)
    /\ Notifications # {}

\* C16: export returns the payload of a node only if the guard grants Export
\* on the node's parent folder; a principal that is neither admin nor owner of
\* that folder, and to which no set of the folder grants Export, gets a
\* failure whatever Read and Write grants it has.
C16_ExportRequiresExport ==
    (Done("export") /\ req.uuid \in DOMAIN db0) =>
        LET p == req.principal
            parent == IF db0[req.uuid].parent = UNSET THEN ROOT_FOLDER_UUID
                      ELSE db0[req.uuid].parent
        IN /\ isRight(req.result) =>
                /\ Grants(p, parent, "Export")
                /\ req.result.value = [file |-> db0[req.uuid].content]
           /\ ~Grants(p, parent, "Export") => isLeft(req.result)
           /\ (/\ parent \in DOMAIN db0
               /\ ~p.isAdmin
               /\ p.email # db0[parent].owner
               /\ "Export" \notin db0[parent].permissions.anonymous
               /\ "Export" \notin db0[parent].permissions.group
               /\ "Export" \notin db0[parent].permissions.authenticated)
                => isLeft(req.result)

\* a principal with Read and Write, but not Export, on the folder of a file is
\* refused the file's payload
C16_Witness ==
    /\ Done("export")
    /\ req.uuid \in DOMAIN db0
    /\ db0[req.uuid].kind = "File"
    /\ Grants(req.principal, db0[req.uuid].parent, "Read")
    /\ Grants(req.principal, db0[req.uuid].parent, "Write")
    /\ Denies(req.principal, db0[req.uuid].parent, "Export")
    /\ req.result = left("ForbiddenError")

(***************************************************************************)
(* Claims about the gates of reads and writes (Spec)                       *)
(***************************************************************************)
\* the principal may read the node: Read on the node itself for a folder, on
\* its containing folder otherwise
MayRead(p, n) ==
    IF n.kind = "Folder" THEN LadderDecision(p, n, "Read") = Granted
    ELSE Grants(p, n.parent, "Read")

\* the nodes a finished read handed to its principal
Returned ==
    IF req.pc # "done" \/ isLeft(req.result) THEN {}
    ELSE IF req.op = "get" THEN {req.result.value}
    ELSE IF req.op \in {"list", "query", "evaluate"} THEN req.result.value.nodes
    ELSE {}

\* C17 as stated: every node that get, list, query or evaluate returns to a
\* principal is one the guard lets that principal read.
C17_ReadsGated == \A n \in Returned : MayRead(req.principal, n)

\* C18 as stated: updateFile replaces the content of a node, and publishes
\* NodeContentUpdated, only if the guard grants the principal Write on the
\* folder that contains the node.
C18_UpdateFileRequiresWrite ==
    (req.op = "updateFile" /\ (StoreSuccesses # {} \/ Notifications # {} \/ db # db0)) =>
        /\ req.uuid \in DOMAIN db0
        /\ Grants(req.principal, IF db0[req.uuid].parent = UNSET THEN ROOT_FOLDER_UUID
                                 ELSE db0[req.uuid].parent, "Write")

(***************************************************************************)
(* Claims about manually run actions (Spec)                                *)
(***************************************************************************)
\* the outcomes of the run procedures the request has called
Ran == {req.trace[i].name : i \in {j \in DOMAIN req.trace : req.trace[j].kind = "action"}}

\* C19: a manual run fails for its caller when the action does not exist or
\* when its run procedure returns or raises an error, the failure being the
\* action's own error, and succeeds only when the run procedure ended without
\* error.
C19_RunActionPropagatesFailure ==
    Done("runAction") =>
        /\ req.uuid \notin Actions => req.result = left("ActionNotFoundError") /\ Ran = {}
        /\ Ran \cap {"returned", "raised"} # {} => req.result = left("ActionError")
        /\ isRight(req.result) <=> Ran = {"void"}

\* the run procedure of an action returned an error, and the caller has it
C19_Witness ==
    /\ Done("runAction")
    /\ Ran = {"returned"}
    /\ req.result = left("ActionError")

(***************************************************************************)
(* Claims about the permissions of created folders (Spec)                  *)
(***************************************************************************)
\* C20: a folder created by createFolder has the creating principal's email as
\* owner and the permission set its parent folder had when it was created; an
\* update of a folder, of its permissions in particular, changes no other
\* node, so the permission sets of its children stay as they were.
C20_PermissionsCopiedAtCreation ==
    /\ req.op = "createFolder" =>
          \A u \in DOMAIN db \ DOMAIN db0 :
             LET parent == IF ParentOf(req.metadata) = UNSET THEN ROOT_FOLDER_UUID
                           ELSE ParentOf(req.metadata)
             IN /\ db[u].kind = "Folder"
                /\ db[u].owner = req.principal.email
                /\ db[u].permissions = db0[parent].permissions
    /\ req.op = "update" =>
          /\ DOMAIN db = DOMAIN db0
          /\ \A u \in DOMAIN db0 \ {req.uuid} : db[u] = db0[u]

\* a non-admin created a folder in a folder of somebody else, and the new
\* folder has the grants of that folder
C20_Witness ==
    /\ Done("createFolder")
    /\ isRight(req.result)
    /\ ~req.principal.isAdmin
    /\ \E u \in DOMAIN db \ DOMAIN db0 :
          /\ db[u].parent \in DOMAIN db0
          /\ db0[db[u].parent].owner # req.principal.email
          /\ db[u].owner = req.principal.email
          /\ db[u].permissions = db0[db[u].parent].permissions
          /\ db[u].permissions # NoPermissions

(***************************************************************************)
(* Claims about the tree (Spec)                                            *)
(***************************************************************************)
\* the node uuid of the store has a parent that is a folder of the store
HasFolderParent(uuid) ==
    /\ db[uuid].parent \in DOMAIN db
    /\ db[db[uuid].parent].kind = "Folder"

\* C21 as stated: whatever orchestrator operations have run on a well-formed
\* tree, every node of the store other than Root has a parent that exists in
\* the store and is a Folder.
C21_ParentIsFolder ==
    \A uuid \in DOMAIN db \ {ROOT_FOLDER_UUID} : HasFolderParent(uuid)

\* C22 as stated: the Root and System folders stay in the store and keep their
\* parent, whatever delete or update requests any principal has issued.
C22_RootAndSystemFixed ==
    /\ {ROOT_FOLDER_UUID, SYSTEM_FOLDER_UUID} \subseteq DOMAIN db
    /\ db[ROOT_FOLDER_UUID].parent = UNSET
    /\ db[SYSTEM_FOLDER_UUID].parent = ROOT_FOLDER_UUID

\* C24 as stated: every NodeUpdatedEvent an update publishes carries the email
\* of the principal of the request as actor, the uuid of the updated node and
\* the fields of the request's metadata, for folders and other nodes alike.
C24_UpdatedEventNamesPrincipal ==
    req.op = "update" =>
        \A i \in Notifications :
            /\ req.trace[i].name = "NodeUpdatedEvent"
            /\ req.trace[i].actor = req.principal.email
            /\ req.trace[i].uuid = req.uuid
            /\ req.trace[i].fields = DOMAIN req.metadata

(***************************************************************************)
(* Claims about concurrent requests (RaceSpec)                             *)
(***************************************************************************)
\* the ladder grants p the capability on the folder uuid of the store as it
\* is now
GrantsNow(p, uuid, cap) ==
    /\ uuid \in DOMAIN db
    /\ db[uuid].kind = "Folder"
    /\ LadderDecision(p, db[uuid], cap) = Granted

\* the step is taken by the handler of req
Runs == other' = other

Batch == {i \in DOMAIN req.trace : req.trace[i].kind = "settled"}

\* the run has moved the node uuid to the folder parent
Moved(uuid, parent) ==
    /\ uuid \in DOMAIN db0
    /\ uuid \in DOMAIN db
    /\ db0[uuid].parent # parent
    /\ db[uuid].parent = parent

\* C25 as stated: a run of move_to_folder settles one update of the parent per
\* target under the principal of the run; a target is moved only if the guard
\* grants that principal Write on the target's current parent and on the
\* destination; an update fails for reasons of its own target only, whatever
\* the other updates return; and the run returns no error to its caller even
\* when updates have failed.
C25_MoveToFolderSwallowsFailures ==
    (req.op = "runAction" /\ req.uuid = "move_to_folder" /\ req.pc = "done") =>
        /\ isRight(req.result)
        /\ Batch # {}
        /\ \A i \in Batch :
              LET e == req.trace[i]
                  parent == req.metadata.parent
              IN /\ e.actor = req.principal.email
                 /\ e.fields = {"parent"}
                 /\ e.ok => db[e.uuid].parent = parent
                 /\ e.name = "NodeNotFoundError" => e.uuid \notin DOMAIN db0
                 /\ e.name = "ForbiddenError" =>
                        ~(/\ Grants(req.principal, db0[e.uuid].parent, "Write")
                          /\ Grants(req.principal, parent, "Write"))
                 /\ Moved(e.uuid, parent) =>
                        /\ Grants(req.principal, db0[e.uuid].parent, "Write")
                        /\ Grants(req.principal, parent, "Write")

====
